---- MODULE Spec2Model ----
(***************************************************************************)
(* A model of the HBase-vs-MongoDB benchmark repository:                   *)
(*   scripts/benchmark.py         the benchmark driver      (SpecBench)    *)
(*   scripts/import_to_hbase.py   the HBase importer        (SpecImport)   *)
(*   scripts/import_to_mongodb.py the MongoDB importer      (SpecImport)   *)
(*   scripts/analyze_results.py   the report generator      (SpecAnalyze)  *)
(* Every script is a sequential program; its position is a pc variable and *)
(* each action is one step of its code.  The stores, the clock and the     *)
(* input files are the environment: what they answer is chosen in Init or  *)
(* nondeterministically at the step that asks.                             *)
(***************************************************************************)
EXTENDS Integers, Sequences, FiniteSets, TLC

(***************************************************************************)
(* Bounds of the model.  The iteration counts of the source (100, 10, 50,  *)
(* 20, 5) are scaled down; the scaled values keep the relations the code   *)
(* relies on (every count is positive, the warmup count may be zero).      *)
(***************************************************************************)
MaxIterations == 2
\* NUM_ITERATIONS is read from the environment: 1..MaxIterations
MaxWarmup == 2
\* WARMUP_ITERATIONS is read from the environment: 0..MaxWarmup
MaxRows == 2
\* rows a store holds when the benchmark starts: 0..MaxRows
MaxFields == 1
\* non-key fields of a MongoDB document: 0..MaxFields
MaxCost == 1
\* clock ticks one store call takes: 0..MaxCost
LARGE_SCAN_ITERATIONS == 2
\* iterations=50 of range_scan_1000 (benchmark.py:286, 293), scaled
MONGO_COUNT_ITERATIONS == 2
\* iterations=20 of MongoDB's count_all (benchmark.py:302), scaled
HBASE_COUNT_ITERATIONS == 1
\* iterations=5 of HBase's count_all (benchmark.py:309), scaled
FIFTH_TEST_ITERATIONS == 2
\* iterations=50 of aggregation / prefix_scan (benchmark.py:319, 328), scaled
MaxBatch == 2
\* BATCH_SIZE is read from the environment: 1..MaxBatch
MaxFileRows == 2
\* rows of one parquet file: 0..MaxFileRows
MaxRuns == 2
\* times an importer is run in a row over the same files
MaxLatency == 2
\* a latency metric of a persisted result, in milliseconds: 0..MaxLatency
MaxThroughput == 2
MaxSamples == 3
\* latency samples of the BenchmarkResult whose statistics are read: 1..MaxSamples
MaxSampleMs == 3
\* one latency sample, in milliseconds: 0..MaxSampleMs
MsPerSecond == 1000
\* sum(self.latencies_ms) / 1000 (benchmark.py:79)
\* the throughput of a persisted result, in operations per second: 0..MaxThroughput

VARIABLES
    \* ---- benchmark.py: configuration and environment
    NUM_ITERATIONS,     \* benchmark.py:36
    WARMUP_ITERATIONS,  \* benchmark.py:37
    serverUp,           \* [store -> BOOLEAN]: does the store accept connections
    storeRows,          \* [store -> 0..MaxRows]: rows the store holds
    docFields,          \* 0..MaxFields: non-_id fields of a MongoDB document
    opCost,             \* 0..MaxCost: clock ticks one store call takes in this run
    \* ---- benchmark.py: program state
    pc,                 \* position in main() / run_all_benchmarks()
    slot,               \* which of the ten "if <store>: run_benchmark(...)" blocks
    mongo,              \* the MongoDBBenchmark object (or None)
    hbase,              \* the HBaseBenchmark object (or None)
    conn,               \* [store -> "none" | "open" | "closed"]: client handle
    keys,               \* keys = random.sample(...) of the point-query block
    key_iter,           \* elements of keys already consumed by next(key_iter, ..)
    queried,            \* the key of every invocation of the point-query call, in order
    rb,                 \* the frame of the running run_benchmark call
    clock,              \* time.perf_counter()
    results,            \* the list run_all_benchmarks builds
    printed,            \* print_results(results) has run
    saved,              \* save_results(results) has written its files
    crash,              \* the exception that ended the process, "none" if none
    \* ---- benchmark.py: history (not program state)
    invoked,            \* [store -> Nat]: benchmark operations invoked on it
    rbCalls,            \* counts of the current / last run_benchmark call
    \* ---- import_to_hbase.py / import_to_mongodb.py: configuration and environment
    importer,           \* "HBase" or "MongoDB": which of the two scripts runs
    BATCH_SIZE,         \* import_to_hbase.py:23, import_to_mongodb.py:24
    dataDir,            \* [file name -> [present, rows]]: DATA_DIR; a row is the
                        \* string form of its first-column value
    targetUp,           \* does the target store accept the connection
    store,              \* [exists, rows]: the destination table / collection
    \* ---- importers: program state
    ipc,                \* position in main() / import_parquet_to_*()
    iconn,              \* "none" | "open" | "closed": connection / client
    parquet_files,      \* the sorted list get_parquet_files returned
    fileIdx,            \* index of parquet_file in parquet_files
    batch_start,        \* batch_start / i of the batch loop
    total_records,      \* total_records
    stats,              \* [returned, total_records]: the dict main() receives
    raised,             \* an exception is propagating out of the import
    \* ---- importers: history (not program state)
    runs,               \* runs of the script so far, this one included
    touched,            \* this run dropped, created or wrote the destination
    connectAttempted,   \* this run tried to connect
    attempted,          \* {<<file index, batch start>>}: batches submitted, this run
    failures,           \* batch inserts that failed, this run
    warnings,           \* "Warning: Some documents failed to insert" lines, this run
    batches,            \* the batches submitted for the file of the batch loop, in order
    \* ---- analyze_results.py
    loaded,             \* data["results"]: the list of result dicts of the JSON file
    apc,                \* the function applied next: "table", "csv", or "done"
    table,              \* the rows create_comparison_table handed to tabulate
    table_error,        \* the exception create_comparison_table raised, "none" if none
    csv_rows,           \* the rows save_comparison_csv wrote to the CSV file
    json_found,         \* RESULTS_DIR holds a benchmark_*.json file
    mpc,                \* position of main() of analyze_results.py
    written,            \* the outputs main() has produced so far
    warned,             \* "Warning: Could not generate charts" was printed
    main_error,         \* the exception that ended main(), "none" if none
    \* ---- benchmark.py: the statistics of one BenchmarkResult
    br,                 \* the BenchmarkResult whose properties are read
    spc,                \* to_dict(): "idle", "reading", "raised" or "returned"
    stat                \* [property -> value]: what each property returned or raised

benchVars == <<NUM_ITERATIONS, WARMUP_ITERATIONS, serverUp, storeRows, docFields,
               opCost, pc, slot, mongo, hbase, conn, keys, key_iter, queried, rb, clock,
               results, printed, saved, crash, invoked, rbCalls>>

importVars == <<importer, BATCH_SIZE, dataDir, targetUp, store, ipc, iconn,
                parquet_files, fileIdx, batch_start, total_records, stats, raised,
                runs, touched, connectAttempted, attempted, failures, warnings,
                batches>>

mainVars == <<json_found, mpc, written, warned, main_error>>

analyzeVars == <<loaded, apc, table, table_error, csv_rows, mainVars>>

statVars == <<br, spc, stat>>

vars == <<benchVars, importVars, analyzeVars, statVars>>

Databases == {"MongoDB", "HBase"}

Min(a, b) == IF a < b THEN a ELSE b

\* 1, 2, .., n as a sequence
Iota(n) == [i \in 1..n |-> i]

\* all sequences of length n of distinct elements of S
InjectiveSeqs(S, n) ==
    {s \in [1..n -> S] : \A i, j \in 1..n : i # j => s[i] # s[j]}

(***************************************************************************)
(* benchmark.py                                                            *)
(***************************************************************************)

\* The object before its constructor ran, and None.
Unset == [state |-> "unset", sample_keys |-> <<>>, has_fields |-> FALSE, fields |-> <<>>]
None == [state |-> "None", sample_keys |-> <<>>, has_fields |-> FALSE, fields |-> <<>>]

\* `if mongo` / `if hbase`: an object is truthy, None is not.
Truthy(obj) == obj.state = "obj"

Bench(db) == IF db = "MongoDB" THEN mongo ELSE hbase

\* The frame of run_benchmark when no call is running.
Idle == [phase |-> "idle", name |-> "", database |-> "", iterations |-> 0,
         i |-> 0, j |-> 0, start |-> 0, latencies |-> <<>>]

\* History of one run_benchmark call: warmup invocations, timed invocations,
\* clock reads before and after a timed invocation, and whether it returned.
NoCalls == [iterations |-> 0, warm |-> 0, timed |-> 0, starts |-> 0, ends |-> 0,
            returned |-> FALSE]

\* The ten `if <store> ...: results.append(run_benchmark(...))` blocks, in order.
Suite == <<
    [name |-> "point_query",     database |-> "MongoDB"],
    [name |-> "point_query",     database |-> "HBase"],
    [name |-> "range_scan_100",  database |-> "MongoDB"],
    [name |-> "range_scan_100",  database |-> "HBase"],
    [name |-> "range_scan_1000", database |-> "MongoDB"],
    [name |-> "range_scan_1000", database |-> "HBase"],
    [name |-> "count_all",       database |-> "MongoDB"],
    [name |-> "count_all",       database |-> "HBase"],
    [name |-> "aggregation",     database |-> "MongoDB"],
    [name |-> "prefix_scan",     database |-> "HBase"] >>

\* The iterations argument of each block (default NUM_ITERATIONS).
Iterations(s) ==
    CASE s \in {1, 2, 3, 4} -> NUM_ITERATIONS
      [] s \in {5, 6}       -> LARGE_SCAN_ITERATIONS
      [] s = 7              -> MONGO_COUNT_ITERATIONS
      [] s = 8              -> HBASE_COUNT_ITERATIONS
      [] OTHER              -> FIFTH_TEST_ITERATIONS

BenchInit ==
    /\ NUM_ITERATIONS \in 1..MaxIterations
    /\ WARMUP_ITERATIONS \in 0..MaxWarmup
    /\ serverUp \in [Databases -> BOOLEAN]
    /\ storeRows \in [Databases -> 0..MaxRows]
    /\ docFields \in 0..MaxFields
    /\ opCost \in 0..MaxCost
    \* what the program cannot observe is fixed: the rows of a store that is
    \* down, the fields of the documents of an empty or unreachable collection
    /\ \A db \in Databases : ~serverUp[db] => storeRows[db] = 0
    /\ storeRows["MongoDB"] = 0 => docFields = 0
    /\ pc = "connect_mongo"
    /\ slot = 1
    /\ mongo = Unset
    /\ hbase = Unset
    /\ conn = [db \in Databases |-> "none"]
    /\ keys = <<>>
    /\ key_iter = 0
    /\ queried = <<>>
    /\ rb = Idle
    /\ clock = 0
    /\ results = <<>>
    /\ printed = FALSE
    /\ saved = FALSE
    /\ crash = "none"
    /\ invoked = [db \in Databases |-> 0]
    /\ rbCalls = NoCalls

envVars == <<NUM_ITERATIONS, WARMUP_ITERATIONS, serverUp, storeRows, docFields, opCost>>

\* No BenchmarkResult is being read (the state of the other specifications).
StatIdle ==
    /\ br = [test_name |-> "", database |-> "", iterations |-> 0, latencies_ms |-> <<>>]
    /\ spc = "idle"
    /\ stat = <<>>

\* main() of analyze_results.py before it is started.
MainIdle ==
    /\ json_found = FALSE
    /\ mpc = "idle"
    /\ written = {}
    /\ warned = FALSE
    /\ main_error = "none"

\* The report generator before it is started (the state of the other specifications).
AnalyzeIdle ==
    /\ loaded = <<>>
    /\ apc = "idle"
    /\ table = <<>>
    /\ table_error = "none"
    /\ csv_rows = <<>>
    /\ MainIdle

\* The importers before either is started (the state of the other specifications).
NoStats == [returned |-> FALSE, total_records |-> 0]
ImportIdle ==
    /\ importer = "HBase"
    /\ BATCH_SIZE = 1
    /\ dataDir = <<>>
    /\ targetUp = FALSE
    /\ store = [exists |-> FALSE, rows |-> <<>>]
    /\ ipc = "idle"
    /\ iconn = "none"
    /\ parquet_files = <<>>
    /\ fileIdx = 0
    /\ batch_start = 0
    /\ total_records = 0
    /\ stats = NoStats
    /\ raised = FALSE
    /\ runs = 0
    /\ touched = FALSE
    /\ connectAttempted = FALSE
    /\ attempted = {}
    /\ failures = 0
    /\ warnings = 0
    /\ batches = <<>>


\* random.sample(population, k): k elements at distinct positions, in any order.
RandomSample(population, k) ==
    {[i \in 1..k |-> population[p[i]]] : p \in InjectiveSeqs(1..Len(population), k)}

\* ---- MongoDBBenchmark.__init__ / _load_sample_keys, under the try of run_all_benchmarks

\* find_one() answers; a non-empty collection gives the sampled _ids and the
\* field names, an empty one leaves sample_keys = [] and never sets self.fields.
MongoConnected ==
    /\ pc = "connect_mongo"
    /\ serverUp["MongoDB"]
    /\ conn' = [conn EXCEPT !["MongoDB"] = "open"]
    /\ mongo' = IF storeRows["MongoDB"] > 0
                THEN [state |-> "obj",
                      sample_keys |-> Iota(Min(storeRows["MongoDB"], NUM_ITERATIONS * 2)),
                      has_fields |-> TRUE,
                      fields |-> Iota(docFields)]
                ELSE [state |-> "obj", sample_keys |-> <<>>,
                      has_fields |-> FALSE, fields |-> <<>>]
    /\ pc' = "connect_hbase"
    /\ UNCHANGED <<importVars, analyzeVars, statVars, envVars, slot, hbase, keys, key_iter, queried, rb, clock, results,
                   printed, saved, crash, invoked, rbCalls>>

\* MongoClient(...) returns a client without contacting the server; the server
\* is down, find_one() raises and the except clause sets mongo = None.
MongoUnreachable ==
    /\ pc = "connect_mongo"
    /\ ~serverUp["MongoDB"]
    /\ mongo' = None
    /\ pc' = "connect_hbase"
    /\ UNCHANGED <<importVars, analyzeVars, statVars, envVars, slot, hbase, conn, keys, key_iter, queried, rb, clock, results,
                   printed, saved, crash, invoked, rbCalls>>

\* The server is up and the client connects, then find_one() or aggregate()
\* raises inside _load_sample_keys: mongo = None and the client is not closed.
MongoSampleFailed ==
    /\ pc = "connect_mongo"
    /\ serverUp["MongoDB"]
    /\ conn' = [conn EXCEPT !["MongoDB"] = "open"]
    /\ mongo' = None
    /\ pc' = "connect_hbase"
    /\ UNCHANGED <<importVars, analyzeVars, statVars, envVars, slot, hbase, keys, key_iter, queried, rb, clock, results,
                   printed, saved, crash, invoked, rbCalls>>

\* ---- HBaseBenchmark.__init__ / _load_sample_keys

HBaseConnected ==
    /\ pc = "connect_hbase"
    /\ serverUp["HBase"]
    /\ conn' = [conn EXCEPT !["HBase"] = "open"]
    /\ hbase' = [state |-> "obj",
                 sample_keys |-> Iota(Min(storeRows["HBase"], NUM_ITERATIONS * 2)),
                 has_fields |-> FALSE, fields |-> <<>>]
    /\ pc' = "check_databases"
    /\ UNCHANGED <<importVars, analyzeVars, statVars, envVars, slot, mongo, keys, key_iter, queried, rb, clock, results,
                   printed, saved, crash, invoked, rbCalls>>

\* connection.open() raises: no connection was opened.
HBaseOpenFailed ==
    /\ pc = "connect_hbase"
    /\ ~serverUp["HBase"]
    /\ hbase' = None
    /\ pc' = "check_databases"
    /\ UNCHANGED <<importVars, analyzeVars, statVars, envVars, slot, mongo, conn, keys, key_iter, queried, rb, clock, results,
                   printed, saved, crash, invoked, rbCalls>>

\* connection.open() succeeds, then table.scan() or table.row() raises inside
\* _load_sample_keys: hbase = None and the opened connection is not closed.
HBaseSampleFailed ==
    /\ pc = "connect_hbase"
    /\ serverUp["HBase"]
    /\ conn' = [conn EXCEPT !["HBase"] = "open"]
    /\ hbase' = None
    /\ pc' = "check_databases"
    /\ UNCHANGED <<importVars, analyzeVars, statVars, envVars, slot, mongo, keys, key_iter, queried, rb, clock, results,
                   printed, saved, crash, invoked, rbCalls>>

\* `not mongo and not hbase`
NoDatabasesNever == FALSE
NoDatabases == ~Truthy(mongo) /\ ~Truthy(hbase)

\* if not mongo and not hbase: sys.exit(1)
CheckDatabases ==
    /\ pc = "check_databases"
    /\ pc' = IF NoDatabases THEN "exit" ELSE "tests"
    /\ UNCHANGED <<importVars, analyzeVars, statVars, envVars, slot, mongo, hbase, conn, keys, key_iter, queried, rb, clock,
                   results, printed, saved, crash, invoked, rbCalls>>

\* ---- the ten benchmark blocks

\* Does evaluating the block's `if` raise?  Only `mongo and mongo.fields` can:
\* self.fields is assigned only when find_one() returned a document.
ConditionRaises(s) ==
    s = 9 /\ Truthy(mongo) /\ ~mongo.has_fields

\* The `if` of each block.
Condition(s) ==
    CASE s = 1         -> Truthy(mongo) /\ mongo.sample_keys # <<>>
      [] s = 2         -> Truthy(hbase) /\ hbase.sample_keys # <<>>
      [] s \in {3,5,7} -> Truthy(mongo)
      [] s \in {4,6,8} -> Truthy(hbase)
      [] s = 9         -> Truthy(mongo) /\ mongo.fields # <<>>
      [] OTHER         -> Truthy(hbase) /\ hbase.sample_keys # <<>>

\* A call that names every result after the first block of its store.
FrameFirstName(s) == [phase |-> "warmup", name |-> "point_query",
                      database |-> Suite[s].database, iterations |-> Iterations(s),
                      i |-> 0, j |-> 0, start |-> 0, latencies |-> <<>>]

\* run_benchmark's entry: latencies = [], then the warmup loop.
Frame(s) == [phase |-> "warmup", name |-> Suite[s].name,
             database |-> Suite[s].database, iterations |-> Iterations(s),
             i |-> 0, j |-> 0, start |-> 0, latencies |-> <<>>]

AtBlock(s) == pc = "tests" /\ rb.phase = "idle" /\ slot = s

\* The `if` is false: the block is skipped.
SkipBlock ==
    /\ \E s \in 1..10 :
        /\ AtBlock(s)
        /\ ~ConditionRaises(s)
        /\ ~Condition(s)
    /\ slot' = slot + 1
    /\ UNCHANGED <<importVars, analyzeVars, statVars, envVars, pc, mongo, hbase, conn, keys, key_iter, queried, rb, clock,
                   results, printed, saved, crash, invoked, rbCalls>>

\* `mongo.fields` on an object whose fields attribute was never assigned.
FieldsAttributeError ==
    /\ \E s \in 1..10 : AtBlock(s) /\ ConditionRaises(s)
    /\ crash' = "AttributeError"
    /\ pc' = "crashed"
    /\ UNCHANGED <<importVars, analyzeVars, statVars, envVars, slot, mongo, hbase, conn, keys, key_iter, queried, rb, clock,
                   results, printed, saved, invoked, rbCalls>>

\* Blocks 1 and 2: keys = random.sample(...); key_iter = iter(keys); run_benchmark(...)
StartPointQuery ==
    /\ \E s \in {1, 2} :
        /\ AtBlock(s)
        /\ Condition(s)
        /\ LET sk == Bench(Suite[s].database).sample_keys
           IN  keys' \in RandomSample(sk, Min(NUM_ITERATIONS, Len(sk)))
        /\ rb' = Frame(s)
    /\ key_iter' = 0
    /\ queried' = <<>>
    /\ rbCalls' = [NoCalls EXCEPT !.iterations = rb'.iterations]
    /\ UNCHANGED <<importVars, analyzeVars, statVars, envVars, pc, slot, mongo, hbase, conn, clock, results,
                   printed, saved, crash, invoked>>

\* Blocks 3 to 10: run_benchmark(name, database, lambda, iterations)
StartBenchmark ==
    /\ \E s \in 3..10 :
        /\ AtBlock(s)
        /\ ~ConditionRaises(s)
        /\ Condition(s)
        /\ rb' = Frame(s)
    /\ rbCalls' = [NoCalls EXCEPT !.iterations = rb'.iterations]
    /\ UNCHANGED <<importVars, analyzeVars, statVars, envVars, pc, slot, mongo, hbase, conn, keys, key_iter, queried, clock,
                   results, printed, saved, crash, invoked>>


\* ---- run_benchmark

\* for _ in range(WARMUP_ITERATIONS)
WarmupRangeOneMore == WARMUP_ITERATIONS + 1
WarmupRange == WARMUP_ITERATIONS

\* next(key_iter, keys[0]): the next key of the iterator, keys[0] once it is exhausted
NextKey == IF key_iter < Len(keys) THEN keys[key_iter + 1] ELSE keys[1]

\* next(key_iter, keys[0]) of the point-query lambdas; the other lambdas take no key.
KeyIterAfterCall == IF rb.name = "point_query" THEN Min(key_iter + 1, Len(keys)) ELSE key_iter

\* The store runs the operation of the lambda and answers.
FuncReturns ==
    /\ invoked' = [invoked EXCEPT ![rb.database] = @ + 1]
    /\ clock' = clock + opCost
    /\ key_iter' = KeyIterAfterCall
    /\ queried' = IF rb.name = "point_query"
                  THEN Append(queried, [key |-> NextKey, database |-> rb.database,
                                        timed |-> rb.phase = "call"])
                  ELSE queried

\* Warmup: func(), result and duration discarded.
RbWarmupCall ==
    /\ pc = "tests"
    /\ rb.phase = "warmup"
    /\ rb.i < WarmupRange
    /\ FuncReturns
    /\ rb' = [rb EXCEPT !.i = @ + 1]
    /\ rbCalls' = [rbCalls EXCEPT !.warm = @ + 1]
    /\ UNCHANGED <<importVars, analyzeVars, statVars, envVars, pc, slot, mongo, hbase, conn, keys, results,
                   printed, saved, crash>>

\* The warmup loop is exhausted.
RbWarmupDone ==
    /\ pc = "tests"
    /\ rb.phase = "warmup"
    /\ rb.i >= WarmupRange
    /\ rb' = [rb EXCEPT !.phase = "loop"]
    /\ UNCHANGED <<importVars, analyzeVars, statVars, envVars, pc, slot, mongo, hbase, conn, keys, key_iter, queried, clock,
                   results, printed, saved, crash, invoked, rbCalls>>

\* start = time.perf_counter()
RbClockStart ==
    /\ pc = "tests"
    /\ rb.phase = "loop"
    /\ rb.j < rb.iterations
    /\ rb' = [rb EXCEPT !.phase = "call", !.start = clock]
    /\ rbCalls' = [rbCalls EXCEPT !.starts = @ + 1]
    /\ UNCHANGED <<importVars, analyzeVars, statVars, envVars, pc, slot, mongo, hbase, conn, keys, key_iter, queried, clock,
                   results, printed, saved, crash, invoked>>

\* func() of the timed loop
RbTimedCall ==
    /\ pc = "tests"
    /\ rb.phase = "call"
    /\ FuncReturns
    /\ rb' = [rb EXCEPT !.phase = "end"]
    /\ rbCalls' = [rbCalls EXCEPT !.timed = @ + 1]
    /\ UNCHANGED <<importVars, analyzeVars, statVars, envVars, pc, slot, mongo, hbase, conn, keys, results,
                   printed, saved, crash>>

\* end = time.perf_counter(); latencies.append((end - start) * 1000)
RbClockEnd ==
    /\ pc = "tests"
    /\ rb.phase = "end"
    /\ rb' = [rb EXCEPT !.phase = "loop", !.j = @ + 1,
                        !.latencies = Append(@, (clock - rb.start) * 1000)]
    /\ rbCalls' = [rbCalls EXCEPT !.ends = @ + 1]
    /\ UNCHANGED <<importVars, analyzeVars, statVars, envVars, pc, slot, mongo, hbase, conn, keys, key_iter, queried, clock,
                   results, printed, saved, crash, invoked>>

\* BenchmarkResult(test_name=name, database=database, iterations=iterations,
\*                 latencies_ms=latencies)
BenchmarkResultDefaultIterations(name, database, iterations, latencies) ==
    [test_name |-> name, database |-> database, iterations |-> NUM_ITERATIONS,
     latencies_ms |-> latencies]
BenchmarkResult(name, database, iterations, latencies) ==
    [test_name |-> name, database |-> database, iterations |-> iterations,
     latencies_ms |-> latencies]

\* The timed loop is exhausted: return the result, which the caller appends.
RbReturn ==
    /\ pc = "tests"
    /\ rb.phase = "loop"
    /\ rb.j >= rb.iterations
    /\ results' = Append(results,
                         BenchmarkResult(rb.name, rb.database, rb.iterations, rb.latencies))
    /\ rb' = Idle
    /\ slot' = slot + 1
    /\ rbCalls' = [rbCalls EXCEPT !.returned = TRUE]
    /\ UNCHANGED <<importVars, analyzeVars, statVars, envVars, pc, mongo, hbase, conn, keys, key_iter, queried, clock,
                   printed, saved, crash, invoked>>

\* func() raises (the store fails the operation).  Nothing in run_benchmark,
\* run_all_benchmarks or main catches it: the process ends with a traceback.
FuncRaises ==
    /\ pc = "tests"
    /\ \/ rb.phase = "warmup" /\ rb.i < WarmupRange
       \/ rb.phase = "call"
    /\ invoked' = [invoked EXCEPT ![rb.database] = @ + 1]
    /\ crash' = "StoreError"
    /\ pc' = "crashed"
    /\ UNCHANGED <<importVars, analyzeVars, statVars, envVars, slot, mongo, hbase, conn, keys, key_iter, queried, rb, clock,
                   results, printed, saved, rbCalls>>

\* ---- the end of run_all_benchmarks and of main

\* if mongo: mongo.close()   if hbase: hbase.close()   return results
Cleanup ==
    /\ AtBlock(11)
    /\ conn' = [db \in Databases |-> IF Truthy(Bench(db)) THEN "closed" ELSE conn[db]]
    /\ pc' = "print_results"
    /\ UNCHANGED <<importVars, analyzeVars, statVars, envVars, slot, mongo, hbase, keys, key_iter, queried, rb, clock, results,
                   printed, saved, crash, invoked, rbCalls>>

PrintResults ==
    /\ pc = "print_results"
    /\ printed' = TRUE
    /\ pc' = "save_results"
    /\ UNCHANGED <<importVars, analyzeVars, statVars, envVars, slot, mongo, hbase, conn, keys, key_iter, queried, rb, clock,
                   results, saved, crash, invoked, rbCalls>>

SaveResults ==
    /\ pc = "save_results"
    /\ saved' = TRUE
    /\ pc' = "done"
    /\ UNCHANGED <<importVars, analyzeVars, statVars, envVars, slot, mongo, hbase, conn, keys, key_iter, queried, rb, clock,
                   results, printed, crash, invoked, rbCalls>>

BenchNext ==
    \/ MongoConnected \/ MongoUnreachable \/ MongoSampleFailed
    \/ HBaseConnected \/ HBaseOpenFailed \/ HBaseSampleFailed
    \/ CheckDatabases
    \/ SkipBlock \/ FieldsAttributeError \/ StartPointQuery \/ StartBenchmark
    \/ RbWarmupCall \/ RbWarmupDone \/ RbClockStart \/ RbTimedCall \/ RbClockEnd
    \/ RbReturn \/ FuncRaises
    \/ Cleanup \/ PrintResults \/ SaveResults

\* The benchmark driver is started; the other scripts are not running.
InitBench == BenchInit /\ ImportIdle /\ AnalyzeIdle /\ StatIdle

SpecBench == InitBench /\ [][BenchNext]_vars

\* The process of the benchmark driver has ended.
BenchEnded == pc \in {"done", "exit", "crashed"}


\* The store other than db.
Other(db) == IF db = "MongoDB" THEN "HBase" ELSE "MongoDB"

\* run_all_benchmarks is past its connection attempts and its availability check.
PastStartup == pc \notin {"connect_mongo", "connect_hbase", "check_databases"}

\* The blocks that benchmark store db.
BlocksOf(db) == {s \in 1..10 : Suite[s].database = db}

\* results holds a result of block s.
HasResult(s) ==
    \E k \in 1..Len(results) :
        results[k].test_name = Suite[s].name /\ results[k].database = Suite[s].database

(***************************************************************************)
(* Claims about benchmark.py, checked under SpecBench                      *)
(***************************************************************************)

\* C1: every BenchmarkResult that run_benchmark returned holds exactly
\* `iterations` latencies and carries the iterations argument of its call,
\* whatever WARMUP_ITERATIONS is; while a call runs, its latency list has one
\* entry per completed timed invocation and none for a warmup invocation.
C1_LatenciesMatchIterations ==
    /\ \A k \in 1..Len(results) :
        /\ Len(results[k].latencies_ms) = results[k].iterations
        /\ \E s \in 1..10 :
            /\ Suite[s].name = results[k].test_name
            /\ Suite[s].database = results[k].database
            /\ results[k].iterations = Iterations(s)
    /\ rb.phase # "idle" => Len(rb.latencies) = rbCalls.ends
    /\ rb.phase = "warmup" => rb.latencies = <<>>

\* A call with warmup invocations and at least two timed ones has returned.
C1_Witness ==
    /\ rbCalls.returned
    /\ rbCalls.warm >= 1
    /\ Len(results) >= 1
    /\ Len(results[Len(results)].latencies_ms) >= 2

\* C2: a run_benchmark call that returns has invoked the operation
\* WARMUP_ITERATIONS times in warmup and `iterations` times timed; no timed
\* bracket opens before the last warmup invocation completed; the clock is
\* read before and after each timed invocation, one invocation per bracket.
C2_WarmupThenBracketedCalls ==
    /\ rbCalls.returned =>
        /\ rbCalls.warm = WARMUP_ITERATIONS
        /\ rbCalls.timed = rbCalls.iterations
        /\ rbCalls.warm + rbCalls.timed = WARMUP_ITERATIONS + rbCalls.iterations
    /\ rbCalls.starts > 0 => rbCalls.warm = WARMUP_ITERATIONS
    /\ rbCalls.ends <= rbCalls.timed
    /\ rbCalls.timed <= rbCalls.starts
    /\ rbCalls.starts <= rbCalls.ends + 1

\* A call with a warmup invocation and two timed invocations has returned.
C2_Witness ==
    /\ rbCalls.returned
    /\ rbCalls.warm >= 1
    /\ rbCalls.timed >= 2
    /\ rbCalls.ends = rbCalls.timed

\* C3: when both connection attempts failed, the process exits at the check
\* (sys.exit(1)), no benchmark operation was invoked, no result exists and
\* nothing is printed or saved.
C3_BothFailedIsFatal ==
    (PastStartup /\ ~Truthy(mongo) /\ ~Truthy(hbase)) =>
        /\ pc = "exit"
        /\ \A db \in Databases : invoked[db] = 0
        /\ rbCalls = NoCalls
        /\ results = <<>>
        /\ ~printed
        /\ ~saved

\* Both stores failed and the process has exited.
C3_Witness == pc = "exit" /\ mongo = None /\ hbase = None

\* C4: when exactly one store failed at startup: no operation is invoked on
\* it, no result names it, the process does not exit at the check, and unless
\* the reachable store fails an operation the run ends with the results
\* printed and saved, holding every test of a reachable store that has data.
C4_OneStoreFailed ==
    \A db \in Databases :
        (PastStartup /\ ~Truthy(Bench(db)) /\ Truthy(Bench(Other(db)))) =>
            /\ invoked[db] = 0
            /\ \A k \in 1..Len(results) : results[k].database # db
            /\ pc # "exit"
            /\ (BenchEnded /\ crash # "StoreError") =>
                /\ pc = "done"
                /\ printed
                /\ saved
                /\ (storeRows[Other(db)] > 0 /\ (Other(db) = "MongoDB" => docFields > 0))
                    => \A s \in BlocksOf(Other(db)) : HasResult(s)

\* C5 (benchmark driver): when the process has ended, no store connection that
\* was opened is still open.
C5_BenchConnectionsClosed ==
    BenchEnded => \A db \in Databases : conn[db] # "open"


(***************************************************************************)
(* import_to_hbase.py and import_to_mongodb.py                             *)
(* The two scripts have the same shape; `importer` says which one runs and *)
(* the actions branch where the scripts differ.  A row of a parquet file   *)
(* is modelled by the string form of its first-column value, which is the  *)
(* HBase row key (str(row[row_key_col]).encode()).                         *)
(***************************************************************************)

\* The names Path.glob("*.parquet") can find, in sorted order.
FileNames == <<"part_0.parquet", "part_1.parquet">>

\* String forms of first-column values.
Keys == {"k1", "k2"}

\* The row a previous import may have left in the destination.
StaleRow == "stale"

\* all sequences over S of length at most n
SeqsUpTo(S, n) == UNION {[1..m -> S] : m \in 0..n}

Absent == [present |-> FALSE, rows |-> <<>>]

impEnv == <<importer, BATCH_SIZE, dataDir, targetUp>>

ImportInit ==
    /\ importer \in Databases
    /\ BATCH_SIZE \in 1..MaxBatch
    /\ dataDir \in [1..Len(FileNames) ->
                      {Absent} \cup {[present |-> TRUE, rows |-> r] :
                                        r \in SeqsUpTo(Keys, MaxFileRows)}]
    /\ targetUp \in BOOLEAN
    /\ store \in {[exists |-> FALSE, rows |-> <<>>],
                  [exists |-> TRUE, rows |-> <<StaleRow>>]}
    /\ ipc = "start"
    /\ iconn = "none"
    /\ parquet_files = <<>>
    /\ fileIdx = 0
    /\ batch_start = 0
    /\ total_records = 0
    /\ stats = NoStats
    /\ raised = FALSE
    /\ runs = 1
    /\ touched = FALSE
    /\ connectAttempted = FALSE
    /\ attempted = {}
    /\ failures = 0
    /\ warnings = 0
    /\ batches = <<>>

\* sorted(data_path.glob("*.parquet")): the present files, by name
FoundFiles == SelectSeq(Iota(Len(FileNames)), LAMBDA f : dataDir[f].present)

\* `if not parquet_files`
NoParquetFilesNever(found) == FALSE
NoParquetFiles(found) == found = <<>>

\* get_parquet_files(DATA_DIR): sys.exit(1) when the list is empty
GetParquetFiles ==
    /\ ipc = "start"
    /\ parquet_files' = FoundFiles
    /\ ipc' = IF NoParquetFiles(FoundFiles) THEN "exit" ELSE "connect"
    /\ UNCHANGED <<benchVars, analyzeVars, statVars, impEnv, batches, store, iconn, fileIdx, batch_start,
                   total_records, stats, raised, runs, touched, connectAttempted,
                   attempted, failures, warnings>>

\* connect_hbase() / connect_mongodb() returns
ConnectOk ==
    /\ ipc = "connect"
    /\ targetUp
    /\ connectAttempted' = TRUE
    /\ iconn' = "open"
    /\ ipc' = "drop"
    /\ UNCHANGED <<benchVars, analyzeVars, statVars, impEnv, batches, store, parquet_files, fileIdx, batch_start,
                   total_records, stats, raised, runs, touched, attempted,
                   failures, warnings>>

\* connection.open() / client.admin.command("ping") raises: sys.exit(1)
ConnectFailed ==
    /\ ipc = "connect"
    /\ ~targetUp
    /\ connectAttempted' = TRUE
    /\ ipc' = "exit"
    /\ UNCHANGED <<benchVars, analyzeVars, statVars, impEnv, batches, store, iconn, parquet_files, fileIdx,
                   batch_start, total_records, stats, raised, runs, touched,
                   attempted, failures, warnings>>

\* HBase: create_table() deletes the table if it exists and creates it empty.
\* MongoDB: collection.drop().
DroppedKeepsRows(st) == [exists |-> TRUE, rows |-> st.rows]
Dropped(st) == [exists |-> importer = "HBase", rows |-> <<>>]

\* create_table(...) / collection.drop(), then total_records = 0
DropDestination ==
    /\ ipc = "drop"
    /\ store' = Dropped(store)
    /\ touched' = TRUE
    /\ total_records' = 0
    /\ fileIdx' = 1
    /\ ipc' = "file_loop"
    /\ UNCHANGED <<benchVars, analyzeVars, statVars, impEnv, batches, iconn, parquet_files, batch_start, stats,
                   raised, runs, connectAttempted, attempted, failures, warnings>>

\* The rows of the file the loop is at: df = pd.read_parquet(parquet_file)
Df == dataDir[parquet_files[fileIdx]].rows

\* for parquet_file in parquet_files: read it, start the batch loop
NextFile ==
    /\ ipc = "file_loop"
    /\ fileIdx <= Len(parquet_files)
    /\ batch_start' = 0
    /\ batches' = <<>>
    /\ ipc' = "batch_loop"
    /\ UNCHANGED <<benchVars, analyzeVars, statVars, impEnv, store, iconn, parquet_files, fileIdx,
                   total_records, stats, raised, runs, touched, connectAttempted,
                   attempted, failures, warnings>>

\* The file loop is exhausted.
FilesDone ==
    /\ ipc = "file_loop"
    /\ fileIdx > Len(parquet_files)
    /\ ipc' = IF importer = "MongoDB" THEN "create_index" ELSE "return"
    /\ UNCHANGED <<benchVars, analyzeVars, statVars, impEnv, batches, store, iconn, parquet_files, fileIdx,
                   batch_start, total_records, stats, raised, runs, touched,
                   connectAttempted, attempted, failures, warnings>>

\* A batch that ends one row late.
HBaseBatchOneMore(df, start) == SubSeq(df, start + 1, Min(start + BATCH_SIZE + 1, Len(df)))

\* HBase: df.iloc[batch_start:min(batch_start + BATCH_SIZE, num_records)]
HBaseBatch(df, start) == SubSeq(df, start + 1, Min(start + BATCH_SIZE, Len(df)))

\* MongoDB: records[i:i + BATCH_SIZE]
MongoBatch(records, i) == SubSeq(records, i + 1, Min(i + BATCH_SIZE, Len(records)))

\* The batch either script cuts at position start.
Batch(df, start) == IF importer = "HBase" THEN HBaseBatch(df, start) ELSE MongoBatch(df, start)

\* batch.put(row_key, data): a row with that key is replaced, else added
Put(stored, key) ==
    IF \E k \in 1..Len(stored) : stored[k] = key THEN stored ELSE Append(stored, key)

RECURSIVE PutAll(_, _)
PutAll(stored, batch) ==
    IF batch = <<>> THEN stored ELSE PutAll(Put(stored, Head(batch)), Tail(batch))

\* collection.insert_many(batch): every document gets a fresh _id and is added
InsertMany(stored, batch) == stored \o batch

\* One batch is written: the with-block of table.batch() ends and sends its
\* puts (HBase); insert_many returns (MongoDB).
InsertBatch ==
    /\ ipc = "batch_loop"
    /\ batch_start < Len(Df)
    /\ store' = IF importer = "HBase"
                THEN [exists |-> TRUE, rows |-> PutAll(store.rows, HBaseBatch(Df, batch_start))]
                ELSE [exists |-> TRUE, rows |-> InsertMany(store.rows, MongoBatch(Df, batch_start))]
    /\ attempted' = attempted \cup {<<fileIdx, batch_start>>}
    /\ batches' = Append(batches, Batch(Df, batch_start))
    /\ batch_start' = batch_start + BATCH_SIZE
    /\ touched' = TRUE
    /\ UNCHANGED <<benchVars, analyzeVars, statVars, impEnv, ipc, iconn, parquet_files, fileIdx,
                   total_records, stats, raised, runs, connectAttempted,
                   failures, warnings>>

\* MongoDB: insert_many(batch, ordered=False) raises BulkWriteError after
\* writing only some documents of the batch; the except clause prints a warning.
InsertBulkWriteError ==
    /\ ipc = "batch_loop"
    /\ importer = "MongoDB"
    /\ batch_start < Len(Df)
    /\ \E n \in 0..(Len(MongoBatch(Df, batch_start)) - 1) :
        store' = [exists |-> store.exists \/ n > 0,
                  rows |-> InsertMany(store.rows, SubSeq(MongoBatch(Df, batch_start), 1, n))]
    /\ attempted' = attempted \cup {<<fileIdx, batch_start>>}
    /\ batches' = Append(batches, Batch(Df, batch_start))
    /\ failures' = failures + 1
    /\ warnings' = warnings + 1
    /\ batch_start' = batch_start + BATCH_SIZE
    /\ touched' = TRUE
    /\ UNCHANGED <<benchVars, analyzeVars, statVars, impEnv, ipc, iconn, parquet_files, fileIdx,
                   total_records, stats, raised, runs, connectAttempted>>

\* The insert raises and nothing catches it: HBase has no except clause around
\* the batch at all, MongoDB catches BulkWriteError only.  The exception leaves
\* import_parquet_to_*() and reaches the finally of main().
InsertRaises ==
    /\ ipc = "batch_loop"
    /\ batch_start < Len(Df)
    /\ attempted' = attempted \cup {<<fileIdx, batch_start>>}
    /\ batches' = Append(batches, Batch(Df, batch_start))
    /\ failures' = failures + 1
    /\ raised' = TRUE
    /\ ipc' = "finally"
    /\ UNCHANGED <<benchVars, analyzeVars, statVars, impEnv, store, iconn, parquet_files, fileIdx,
                   batch_start, total_records, stats, runs, touched,
                   connectAttempted, warnings>>

\* The batch loop of a file is exhausted: total_records += num_records
EndFile ==
    /\ ipc = "batch_loop"
    /\ batch_start >= Len(Df)
    /\ total_records' = total_records + Len(Df)
    /\ fileIdx' = fileIdx + 1
    /\ ipc' = "file_loop"
    /\ UNCHANGED <<benchVars, analyzeVars, statVars, impEnv, batches, store, iconn, parquet_files, batch_start,
                   stats, raised, runs, touched, connectAttempted, attempted,
                   failures, warnings>>

\* MongoDB: collection.create_index(first_col) (creates the collection if needed)
CreateIndex ==
    /\ ipc = "create_index"
    /\ store' = [store EXCEPT !.exists = TRUE]
    /\ ipc' = "return"
    /\ touched' = TRUE
    /\ UNCHANGED <<benchVars, analyzeVars, statVars, impEnv, batches, iconn, parquet_files, fileIdx, batch_start,
                   total_records, stats, raised, runs, connectAttempted,
                   attempted, failures, warnings>>

\* return {"total_records": total_records, ...}
ReturnStats ==
    /\ ipc = "return"
    /\ stats' = [returned |-> TRUE, total_records |-> total_records]
    /\ ipc' = "finally"
    /\ UNCHANGED <<benchVars, analyzeVars, statVars, impEnv, batches, store, iconn, parquet_files, fileIdx,
                   batch_start, total_records, raised, runs, touched,
                   connectAttempted, attempted, failures, warnings>>

\* finally: connection.close() / client.close()
FinallyClose ==
    /\ ipc = "finally"
    /\ iconn' = "closed"
    /\ ipc' = IF raised THEN "crashed" ELSE "summary"
    /\ UNCHANGED <<benchVars, analyzeVars, statVars, impEnv, batches, store, parquet_files, fileIdx, batch_start,
                   total_records, stats, raised, runs, touched, connectAttempted,
                   attempted, failures, warnings>>

\* main() prints the Import Summary from stats
PrintSummary ==
    /\ ipc = "summary"
    /\ ipc' = "done"
    /\ UNCHANGED <<benchVars, analyzeVars, statVars, impEnv, batches, store, iconn, parquet_files, fileIdx,
                   batch_start, total_records, stats, raised, runs, touched,
                   connectAttempted, attempted, failures, warnings>>

\* The process of the importer has ended.
ImportEnded == ipc \in {"done", "exit", "crashed"}

\* The same script is started again over the same files; the destination
\* keeps what the previous run left in it.
RunAgain ==
    /\ ImportEnded
    /\ runs < MaxRuns
    /\ runs' = runs + 1
    /\ ipc' = "start"
    /\ iconn' = "none"
    /\ parquet_files' = <<>>
    /\ fileIdx' = 0
    /\ batch_start' = 0
    /\ total_records' = 0
    /\ stats' = NoStats
    /\ raised' = FALSE
    /\ touched' = FALSE
    /\ connectAttempted' = FALSE
    /\ attempted' = {}
    /\ failures' = 0
    /\ warnings' = 0
    /\ batches' = <<>>
    /\ UNCHANGED <<benchVars, analyzeVars, statVars, impEnv, store>>

ImportNext ==
    \/ GetParquetFiles \/ ConnectOk \/ ConnectFailed \/ DropDestination
    \/ NextFile \/ FilesDone
    \/ InsertBatch \/ InsertBulkWriteError \/ InsertRaises \/ EndFile
    \/ CreateIndex \/ ReturnStats \/ FinallyClose \/ PrintSummary
    \/ RunAgain

\* The benchmark driver before it is started (the state of the other specifications).
BenchIdle ==
    /\ NUM_ITERATIONS = 1
    /\ WARMUP_ITERATIONS = 0
    /\ serverUp = [db \in Databases |-> FALSE]
    /\ storeRows = [db \in Databases |-> 0]
    /\ docFields = 0
    /\ opCost = 0
    /\ pc = "idle"
    /\ slot = 1
    /\ mongo = Unset
    /\ hbase = Unset
    /\ conn = [db \in Databases |-> "none"]
    /\ keys = <<>>
    /\ key_iter = 0
    /\ queried = <<>>
    /\ rb = Idle
    /\ clock = 0
    /\ results = <<>>
    /\ printed = FALSE
    /\ saved = FALSE
    /\ crash = "none"
    /\ invoked = [db \in Databases |-> 0]
    /\ rbCalls = NoCalls

\* An importer is started; the other scripts are not running.
InitImport == ImportInit /\ BenchIdle /\ AnalyzeIdle /\ StatIdle

SpecImport == InitImport /\ [][ImportNext]_vars


(***************************************************************************)
(* Claims about the importers, checked under SpecImport                    *)
(***************************************************************************)

RECURSIVE SumRows(_)
SumRows(found) ==
    IF found = <<>> THEN 0 ELSE Len(dataDir[Head(found)].rows) + SumRows(Tail(found))

\* Rows of all input files together.
SourceRows == SumRows(FoundFiles)

\* The distinct row keys of all input files.
SourceKeys ==
    {dataDir[f].rows[k] : <<f, k>> \in {<<f, k>> \in (1..Len(FileNames)) \X (1..MaxFileRows) :
                                            dataDir[f].present /\ k <= Len(dataDir[f].rows)}}

\* Every batch of every input file: <<position of the file, first row>>.
AllBatches ==
    {<<i, b>> \in (1..Len(parquet_files)) \X (0..MaxFileRows) :
        b < Len(dataDir[parquet_files[i]].rows) /\ b % BATCH_SIZE = 0}

\* C6: an importer that finds no input files exits without even trying to
\* connect; one whose connection attempt fails exits too; in both cases the
\* destination has not been dropped, created or written by this run.
C6_FatalBeforeTouchingStore ==
    /\ ipc = "exit" => (~touched /\ iconn = "none" /\ attempted = {})
    /\ (ipc # "start" /\ FoundFiles = <<>>) => (ipc = "exit" /\ ~connectAttempted)
    /\ (connectAttempted /\ ~targetUp) => ipc = "exit"

\* Input files were found, the connection attempt failed, the importer exited.
C6_Witness == ipc = "exit" /\ FoundFiles # <<>> /\ connectAttempted /\ store.exists

\* C7 (HBase importer): when a batch insert failed, the import still ends
\* normally: every batch of every file was attempted and the statistics were
\* returned to main().
C7_InsertFailureDoesNotAbort ==
    (importer = "HBase" /\ failures > 0 /\ ImportEnded) =>
        /\ ipc = "done"
        /\ stats.returned
        /\ attempted = AllBatches

\* C8 as stated: after a run without insert failures (the first or a repeated
\* one) the destination holds as many rows as the source files, and
\* total_records is that number, also when first-column values repeat.
C8_StoredEqualsSource ==
    (ipc = "done" /\ failures = 0) =>
        /\ Len(store.rows) = SourceRows
        /\ stats.total_records = Len(store.rows)

\* C8 as amended: after a run without insert failures (the first or a repeated
\* one) total_records is the number of source rows; MongoDB holds that many
\* documents; HBase holds one row per distinct row key, which is that many
\* rows when the row keys of the source are pairwise distinct.
C8_StoredEqualsSourceKeys ==
    (ipc = "done" /\ failures = 0) =>
        /\ stats.total_records = SourceRows
        /\ importer = "MongoDB" => Len(store.rows) = SourceRows
        /\ importer = "HBase" => Len(store.rows) = Cardinality(SourceKeys)
        /\ Cardinality(SourceKeys) = SourceRows => Len(store.rows) = SourceRows

\* A repeated HBase import of two files with distinct row keys has finished.
C8_Witness ==
    /\ ipc = "done"
    /\ runs = 2
    /\ failures = 0
    /\ importer = "HBase"
    /\ Len(parquet_files) = 2
    /\ SourceRows = 2
    /\ Cardinality(SourceKeys) = 2
    /\ Len(store.rows) = 2

(***************************************************************************)
(* analyze_results.py: the comparison table and the comparison CSV.        *)
(* Numbers are whole milliseconds and whole operations per second; a       *)
(* percentage is kept as the integer its rendering shows (tenths in the    *)
(* table, hundredths in the CSV).                                          *)
(***************************************************************************)
\* The test names of the persisted results, in the order benchmark.py writes them.
TestNames == <<"point_query", "count_all">>

\* One entry of data["results"]: the keys BenchmarkResult.to_dict() writes, for
\* a test whose latency samples are all lat.
Result(t, db, lat, thr) ==
    [test_name |-> t, database |-> db,
     p50_ms |-> lat, p95_ms |-> lat, p99_ms |-> lat, mean_ms |-> lat,
     std_ms |-> 0, min_ms |-> lat, max_ms |-> lat, throughput_ops |-> thr]

\* A (test, store) pair the results file has no entry for.
Missing == Result("", "", 0, 0)

\* The (test, store) pairs in the order benchmark.py appends their results.
Slots ==
    [i \in 1..(2 * Len(TestNames)) |->
        [test_name |-> TestNames[(i + 1) \div 2],
         database |-> IF i % 2 = 1 THEN "MongoDB" ELSE "HBase"]]

\* The result lists a results file can hold for the first n (test, store)
\* pairs: every pair is absent or carries a latency and a throughput.
ResultFiles(n) ==
    {SelectSeq([i \in 1..n |->
                    IF c[i] = <<-1, -1>> THEN Missing
                    ELSE Result(Slots[i].test_name, Slots[i].database, c[i][1], c[i][2])],
               LAMBDA r : r # Missing) :
        c \in [1..n -> {<<-1, -1>>} \cup ((0..MaxLatency) \X (0..MaxThroughput))]}

\* The two functions are about to be applied to the results of a file.
AnalyzeInit ==
    /\ loaded \in ResultFiles(Len(Slots))
    /\ apc = "table"
    /\ table = <<>>
    /\ table_error = "none"
    /\ csv_rows = <<>>
    /\ MainIdle

\* The keys of the dict `tests`, in insertion order: the test names in the
\* order of their first result.
Tests(res) ==
    LET first == {i \in DOMAIN res : \A j \in 1..(i - 1) : res[j].test_name # res[i].test_name}
    IN [k \in 1..Cardinality(first) |->
            res[CHOOSE i \in first : Cardinality({j \in first : j < i}) = k - 1].test_name]

\* A value of a metric: a number, the string "N/A", or None.
Num(v) == [kind |-> "num", v |-> v]
NA == [kind |-> "N/A", v |-> 0]
NoValue == [kind |-> "None", v |-> 0]

\* tests[t].get(db, {}).get(key, default); tests[t][db] is the last result of
\* that test and store in the list.
Get(res, t, db, key, default) ==
    LET of == {i \in DOMAIN res : res[i].test_name = t /\ res[i].database = db}
    IN IF of = {} THEN default
       ELSE Num(res[CHOOSE i \in of : \A j \in of : j <= i][key])

\* The metrics of the table and of the CSV.
TableMetrics == <<
    [key |-> "p50_ms",         name |-> "p50 (ms)"],
    [key |-> "p95_ms",         name |-> "p95 (ms)"],
    [key |-> "p99_ms",         name |-> "p99 (ms)"],
    [key |-> "mean_ms",        name |-> "Mean (ms)"],
    [key |-> "throughput_ops", name |-> "Throughput (ops/s)"] >>

CsvMetrics == <<
    [key |-> "p50_ms",         name |-> "p50 (ms)"],
    [key |-> "p95_ms",         name |-> "p95 (ms)"],
    [key |-> "p99_ms",         name |-> "p99 (ms)"],
    [key |-> "mean_ms",        name |-> "Mean (ms)"],
    [key |-> "std_ms",         name |-> "Std Dev (ms)"],
    [key |-> "min_ms",         name |-> "Min (ms)"],
    [key |-> "max_ms",         name |-> "Max (ms)"],
    [key |-> "throughput_ops", name |-> "Throughput (ops/s)"] >>

\* n / d rounded to the nearest integer, a tie to the even one (n >= 0, d > 0):
\* the rounding of the format .1f and of round(x, 2).
RoundHalfEven(n, d) ==
    LET q == n \div d
        r == n % d
    IN  IF 2 * r < d THEN q
        ELSE IF 2 * r > d THEN q + 1
        ELSE IF q % 2 = 0 THEN q ELSE q + 1

\* The strings of the Diff % column: the em dash, "0%", and a signed
\* percentage with one decimal; ZeroDivisionError stands for the exception
\* the division raises.
EmDash == "EM DASH"
NoDiff == [text |-> EmDash, sign |-> "", tenths |-> 0]
ZeroPercent == [text |-> "0%", sign |-> "", tenths |-> 0]
ZeroDivisionError == [text |-> "ZeroDivisionError", sign |-> "", tenths |-> 0]

\* f"{sign}{(num / den * 100):.1f}%"
TableDiff(sign, num, den) ==
    IF den = 0 THEN ZeroDivisionError
    ELSE [text |-> "pct", sign |-> sign, tenths |-> RoundHalfEven(1000 * num, den)]

\* The winner and the Diff % of one table row (analyze_results.py:77-107).
TableCompare(metric_key, mongo_val, hbase_val) ==
    IF mongo_val.kind = "num" /\ hbase_val.kind = "num"
    THEN IF metric_key = "throughput_ops"
         THEN IF mongo_val.v > hbase_val.v
              THEN [winner |-> "MongoDB",
                    diff_pct |-> TableDiff("+", mongo_val.v - hbase_val.v, hbase_val.v)]
              ELSE IF hbase_val.v > mongo_val.v
              THEN [winner |-> "HBase",
                    diff_pct |-> TableDiff("+", hbase_val.v - mongo_val.v, mongo_val.v)]
              ELSE [winner |-> "Tie", diff_pct |-> ZeroPercent]
         ELSE IF mongo_val.v < hbase_val.v
              THEN [winner |-> "MongoDB",
                    diff_pct |-> TableDiff("-", hbase_val.v - mongo_val.v, hbase_val.v)]
              ELSE IF hbase_val.v < mongo_val.v
              THEN [winner |-> "HBase",
                    diff_pct |-> TableDiff("-", mongo_val.v - hbase_val.v, mongo_val.v)]
              ELSE [winner |-> "Tie", diff_pct |-> ZeroPercent]
    ELSE [winner |-> EmDash, diff_pct |-> NoDiff]

\* test_name.replace("_", " ").title()
Title(test_name) ==
    CASE test_name = "point_query" -> "Point Query"
      [] test_name = "count_all"   -> "Count All"
      [] OTHER                     -> test_name

\* f"{val:.3f}" if isinstance(val, float) else str(val)
Cell(val) ==
    IF val.kind = "num" THEN [text |-> "number", thousandths |-> 1000 * val.v]
    ELSE [text |-> val.kind, thousandths |-> 0]

\* The row create_comparison_table appends for metric j of test t.
TableRow(res, t, j) ==
    LET metric == TableMetrics[j]
        mongo_val == Get(res, t, "MongoDB", metric.key, NA)
        hbase_val == Get(res, t, "HBase", metric.key, NA)
        c == TableCompare(metric.key, mongo_val, hbase_val)
    IN  [test |-> IF metric.key = "p50_ms" THEN Title(t) ELSE "",
         metric |-> metric.name,
         mongodb |-> Cell(mongo_val),
         hbase |-> Cell(hbase_val),
         winner |-> c.winner,
         diff_pct |-> c.diff_pct]

\* ["", "", "", "", "", ""]
Spacer ==
    [test |-> "", metric |-> "", mongodb |-> [text |-> "", thousandths |-> 0],
     hbase |-> [text |-> "", thousandths |-> 0], winner |-> "",
     diff_pct |-> [text |-> "", sign |-> "", tenths |-> 0]]

\* create_comparison_table(results): the rows handed to tabulate (rows[:-1]),
\* or the exception a division raised on the way.
create_comparison_table(res) ==
    LET tests == Tests(res)
        n == (Len(TableMetrics) + 1) * Len(tests)
        rows == [i \in 1..n |->
                    IF i % (Len(TableMetrics) + 1) = 0 THEN Spacer
                    ELSE TableRow(res, tests[((i - 1) \div (Len(TableMetrics) + 1)) + 1],
                                  i % (Len(TableMetrics) + 1))]
    IN  IF \E i \in 1..n : rows[i].diff_pct = ZeroDivisionError
        THEN [error |-> "ZeroDivisionError", rows |-> <<>>]
        ELSE [error |-> "none", rows |-> SubSeq(rows, 1, n - 1)]

\* The difference_pct of the CSV: "" (no comparison), the int 0, or a float
\* rounded to two decimals.
NoCsvDiff == [kind |-> "", hundredths |-> 0]
IntZero == [kind |-> "int", hundredths |-> 0]

\* round(sign * (num / den * 100), 2) if den != 0 else 0
CsvDiff(sign, num, den) ==
    IF den = 0 THEN IntZero
    ELSE [kind |-> "float", hundredths |-> sign * RoundHalfEven(10000 * num, den)]

\* The winner and the difference of one CSV row (analyze_results.py:245-271).
CsvCompare(metric_key, mongo_val, hbase_val) ==
    IF mongo_val # NoValue /\ hbase_val # NoValue
    THEN IF metric_key = "throughput_ops"
         THEN IF mongo_val.v > hbase_val.v
              THEN [winner |-> "MongoDB",
                    diff_pct |-> CsvDiff(1, mongo_val.v - hbase_val.v, hbase_val.v)]
              ELSE IF hbase_val.v > mongo_val.v
              THEN [winner |-> "HBase",
                    diff_pct |-> CsvDiff(1, hbase_val.v - mongo_val.v, mongo_val.v)]
              ELSE [winner |-> "Tie", diff_pct |-> IntZero]
         ELSE IF mongo_val.v < hbase_val.v
              THEN [winner |-> "MongoDB",
                    diff_pct |-> CsvDiff(-1, hbase_val.v - mongo_val.v, hbase_val.v)]
              ELSE IF hbase_val.v < mongo_val.v
              THEN [winner |-> "HBase",
                    diff_pct |-> CsvDiff(-1, mongo_val.v - hbase_val.v, mongo_val.v)]
              ELSE [winner |-> "Tie", diff_pct |-> IntZero]
    ELSE [winner |-> "", diff_pct |-> NoCsvDiff]

\* The row save_comparison_csv appends for metric j of test t.
CsvRow(res, t, j) ==
    LET metric == CsvMetrics[j]
        mongo_val == Get(res, t, "MongoDB", metric.key, NoValue)
        hbase_val == Get(res, t, "HBase", metric.key, NoValue)
        c == CsvCompare(metric.key, mongo_val, hbase_val)
    IN  [test_name |-> t,
         metric |-> metric.name,
         mongodb_value |-> mongo_val,
         hbase_value |-> hbase_val,
         winner |-> c.winner,
         difference_pct |-> c.diff_pct]

\* save_comparison_csv(results, output_path): the rows of the DataFrame written.
save_comparison_csv(res) ==
    LET tests == Tests(res)
        n == Len(CsvMetrics) * Len(tests)
    IN  [i \in 1..n |-> CsvRow(res, tests[((i - 1) \div Len(CsvMetrics)) + 1],
                               ((i - 1) % Len(CsvMetrics)) + 1)]

\* create_comparison_table is applied to the loaded results.
ApplyCreateComparisonTable ==
    /\ apc = "table"
    /\ table' = create_comparison_table(loaded).rows
    /\ table_error' = create_comparison_table(loaded).error
    /\ apc' = "csv"
    /\ UNCHANGED <<benchVars, importVars, statVars, mainVars, loaded, csv_rows>>

\* save_comparison_csv is applied to the same results, whatever the table
\* function did with them.
ApplySaveComparisonCsv ==
    /\ apc = "csv"
    /\ csv_rows' = save_comparison_csv(loaded)
    /\ apc' = "done"
    /\ UNCHANGED <<benchVars, importVars, statVars, mainVars, loaded, table, table_error>>

AnalyzeNext ==
    \/ ApplyCreateComparisonTable
    \/ ApplySaveComparisonCsv

InitAnalyze == AnalyzeInit /\ BenchIdle /\ ImportIdle /\ StatIdle

SpecAnalyze == InitAnalyze /\ [][AnalyzeNext]_vars

\* C9: once both functions were applied, for every test both stores have a
\* result for and every metric (values m for MongoDB, h for HBase), the table
\* row and the CSV row name the winner (the strictly lower value for a latency
\* metric, the strictly higher one for throughput, "Tie" for equal values) and
\* give the difference: 0% for a tie, otherwise |winner - loser| / loser * 100,
\* negative for a latency metric and positive for throughput, rounded as the
\* output rounds it.  The difference is required only where that quotient has
\* a value (loser # 0).
C9_WinnerAndDifference ==
    apc = "done" =>
        \A k \in 1..Len(Tests(loaded)) :
            LET t == Tests(loaded)[k]
                M == {i \in DOMAIN loaded :
                        loaded[i].test_name = t /\ loaded[i].database = "MongoDB"}
                H == {i \in DOMAIN loaded :
                        loaded[i].test_name = t /\ loaded[i].database = "HBase"}
                Abs(x) == IF x < 0 THEN -x ELSE x
                Higher(key) == key = "throughput_ops"
                Winner(key, m, h) ==
                    IF m = h THEN "Tie"
                    ELSE IF Higher(key) = (m > h) THEN "MongoDB" ELSE "HBase"
                Loser(key, m, h) ==
                    IF Higher(key) = (m > h) THEN h ELSE m
            IN  (M # {} /\ H # {}) =>
                    /\ \A j \in 1..Len(TableMetrics) :
                        LET key == TableMetrics[j].key
                            m == loaded[CHOOSE i \in M : TRUE][key]
                            h == loaded[CHOOSE i \in H : TRUE][key]
                            l == Loser(key, m, h)
                            p == 6 * (k - 1) + j
                        IN  /\ p <= Len(table)
                            /\ table[p].metric = TableMetrics[j].name
                            /\ table[p].winner = Winner(key, m, h)
                            /\ m = h => table[p].diff_pct.text = "0%"
                            /\ (m # h /\ l # 0) =>
                                /\ table[p].diff_pct.text = "pct"
                                /\ table[p].diff_pct.sign = IF Higher(key) THEN "+" ELSE "-"
                                /\ 2 * Abs(table[p].diff_pct.tenths * l - 1000 * Abs(m - h)) <= l
                    /\ \A j \in 1..Len(CsvMetrics) :
                        LET key == CsvMetrics[j].key
                            m == loaded[CHOOSE i \in M : TRUE][key]
                            h == loaded[CHOOSE i \in H : TRUE][key]
                            l == Loser(key, m, h)
                            p == 8 * (k - 1) + j
                        IN  /\ p <= Len(csv_rows)
                            /\ csv_rows[p].test_name = t
                            /\ csv_rows[p].metric = CsvMetrics[j].name
                            /\ csv_rows[p].winner = Winner(key, m, h)
                            /\ m = h => csv_rows[p].difference_pct.hundredths = 0
                            /\ (m # h /\ l # 0) =>
                                LET d == csv_rows[p].difference_pct.hundredths
                                IN  /\ csv_rows[p].difference_pct.kind = "float"
                                    /\ IF Higher(key) THEN d >= 0 ELSE d <= 0
                                    /\ 2 * Abs(Abs(d) * l - 10000 * Abs(m - h)) <= l

\* C10: once both functions were applied, every test name of the results has
\* exactly one table row and exactly one CSV row per compared metric, also
\* when only one store has a result for it; in such a row the absent store's
\* value is the marker (N/A in the table, None in the CSV) and the row has no
\* winner and no percentage.
C10_OneRowPerTestAndMetric ==
    apc = "done" =>
        LET tests == Tests(loaded)
            Has(t, db) == \E i \in DOMAIN loaded :
                            loaded[i].test_name = t /\ loaded[i].database = db
        IN  /\ tests # <<>> => Len(table) = 6 * Len(tests) - 1
            /\ Len(csv_rows) = 8 * Len(tests)
            /\ \A k \in 1..Len(tests) :
                /\ \A j \in 1..Len(TableMetrics) :
                    LET p == 6 * (k - 1) + j
                    IN  /\ p <= Len(table)
                        /\ table[p].metric = TableMetrics[j].name
                        /\ j = 1 => table[p].test = Title(tests[k])
                        /\ (table[p].mongodb.text = "N/A") = ~Has(tests[k], "MongoDB")
                        /\ (table[p].hbase.text = "N/A") = ~Has(tests[k], "HBase")
                        /\ (~Has(tests[k], "MongoDB") \/ ~Has(tests[k], "HBase")) =>
                            /\ table[p].winner = EmDash
                            /\ table[p].diff_pct.text = EmDash
                /\ \A j \in 1..Len(CsvMetrics) :
                    /\ Cardinality({p \in DOMAIN csv_rows :
                            /\ csv_rows[p].test_name = tests[k]
                            /\ csv_rows[p].metric = CsvMetrics[j].name}) = 1
                    /\ \A p \in DOMAIN csv_rows :
                        (csv_rows[p].test_name = tests[k] /\ csv_rows[p].metric = CsvMetrics[j].name) =>
                            /\ (csv_rows[p].mongodb_value = NoValue) = ~Has(tests[k], "MongoDB")
                            /\ (csv_rows[p].hbase_value = NoValue) = ~Has(tests[k], "HBase")
                            /\ (~Has(tests[k], "MongoDB") \/ ~Has(tests[k], "HBase")) =>
                                /\ csv_rows[p].winner = ""
                                /\ csv_rows[p].difference_pct.kind = ""

(***************************************************************************)
(* analyze_results.py: main().  The results file holds the entries of one  *)
(* test (either store's may be absent); the chart functions render or      *)
(* raise; writing a file into RESULTS_DIR succeeds.                        *)
(***************************************************************************)
MainInit ==
    /\ json_found \in BOOLEAN
    /\ mpc = "load"
    /\ written = {}
    /\ warned = FALSE
    /\ main_error = "none"
    /\ loaded = <<>>
    /\ apc = "idle"
    /\ table = <<>>
    /\ table_error = "none"
    /\ csv_rows = <<>>

\* load_latest_results(): no benchmark_*.json in RESULTS_DIR, sys.exit(1)
NoResultsFile ==
    /\ mpc = "load"
    /\ ~json_found
    /\ mpc' = "exit"
    /\ UNCHANGED <<benchVars, importVars, statVars, json_found, written, warned, main_error,
                   loaded, apc, table, table_error, csv_rows>>

\* data = load_latest_results(); results = data["results"]
LoadResults ==
    /\ mpc = "load"
    /\ json_found
    /\ loaded' \in ResultFiles(Cardinality(Databases))
    /\ mpc' = "table"
    /\ UNCHANGED <<benchVars, importVars, statVars, json_found, written, warned, main_error,
                   apc, table, table_error, csv_rows>>

\* print("\n" + create_comparison_table(results)): outside any try, what the
\* function raises ends main().
PrintComparisonTable ==
    /\ mpc = "table"
    /\ LET out == create_comparison_table(loaded)
       IN  /\ table' = out.rows
           /\ table_error' = out.error
           /\ IF out.error = "none"
              THEN /\ mpc' = "latency_chart"
                   /\ written' = written \cup {"table"}
                   /\ main_error' = main_error
              ELSE /\ mpc' = "crashed"
                   /\ written' = written
                   /\ main_error' = out.error
    /\ UNCHANGED <<benchVars, importVars, statVars, json_found, warned, loaded, apc, csv_rows>>

\* A chart failure that no except clause catches.
ExceptChartUncaught == [mpc |-> "crashed", warned |-> FALSE, main_error |-> "Exception"]

\* except Exception as e: print(f"Warning: Could not generate charts - {e}");
\* main() goes on after the try statement.
ExceptChart == [mpc |-> "summary", warned |-> TRUE, main_error |-> "none"]

\* create_latency_chart(results, ...) returns
LatencyChart ==
    /\ mpc = "latency_chart"
    /\ written' = written \cup {"latency_chart"}
    /\ mpc' = "throughput_chart"
    /\ UNCHANGED <<benchVars, importVars, statVars, json_found, warned, main_error,
                   loaded, apc, table, table_error, csv_rows>>

\* create_latency_chart(results, ...) raises: create_throughput_chart is skipped
LatencyChartRaises ==
    /\ mpc = "latency_chart"
    /\ mpc' = ExceptChart.mpc
    /\ warned' = ExceptChart.warned
    /\ main_error' = ExceptChart.main_error
    /\ UNCHANGED <<benchVars, importVars, statVars, json_found, written,
                   loaded, apc, table, table_error, csv_rows>>

\* create_throughput_chart(results, ...) returns
ThroughputChart ==
    /\ mpc = "throughput_chart"
    /\ written' = written \cup {"throughput_chart"}
    /\ mpc' = "summary"
    /\ UNCHANGED <<benchVars, importVars, statVars, json_found, warned, main_error,
                   loaded, apc, table, table_error, csv_rows>>

\* create_throughput_chart(results, ...) raises
ThroughputChartRaises ==
    /\ mpc = "throughput_chart"
    /\ mpc' = ExceptChart.mpc
    /\ warned' = ExceptChart.warned
    /\ main_error' = ExceptChart.main_error
    /\ UNCHANGED <<benchVars, importVars, statVars, json_found, written,
                   loaded, apc, table, table_error, csv_rows>>

\* create_summary_report(data, ...): the report embeds
\* create_comparison_table(results), computed again; what it raises ends main().
SummaryReport ==
    /\ mpc = "summary"
    /\ LET out == create_comparison_table(loaded)
       IN  IF out.error = "none"
           THEN /\ mpc' = "raw_csv"
                /\ written' = written \cup {"summary"}
                /\ main_error' = main_error
           ELSE /\ mpc' = "crashed"
                /\ written' = written
                /\ main_error' = out.error
    /\ UNCHANGED <<benchVars, importVars, statVars, json_found, warned,
                   loaded, apc, table, table_error, csv_rows>>

\* save_raw_results_csv(results, ...)
SaveRawResultsCsv ==
    /\ mpc = "raw_csv"
    /\ written' = written \cup {"raw_csv"}
    /\ mpc' = "comparison_csv"
    /\ UNCHANGED <<benchVars, importVars, statVars, json_found, warned, main_error,
                   loaded, apc, table, table_error, csv_rows>>

\* save_comparison_csv(results, ...), then the closing lines of main()
SaveComparisonCsv ==
    /\ mpc = "comparison_csv"
    /\ csv_rows' = save_comparison_csv(loaded)
    /\ written' = written \cup {"comparison_csv"}
    /\ mpc' = "done"
    /\ UNCHANGED <<benchVars, importVars, statVars, json_found, warned, main_error,
                   loaded, apc, table, table_error>>

MainNext ==
    \/ NoResultsFile
    \/ LoadResults
    \/ PrintComparisonTable
    \/ LatencyChart
    \/ LatencyChartRaises
    \/ ThroughputChart
    \/ ThroughputChartRaises
    \/ SummaryReport
    \/ SaveRawResultsCsv
    \/ SaveComparisonCsv

InitMain == MainInit /\ BenchIdle /\ ImportIdle /\ StatIdle

SpecMain == InitMain /\ [][MainNext]_vars

\* main() has ended: normally, by sys.exit, or by an exception.
MainEnded == mpc \in {"done", "exit", "crashed"}

\* C11: when a chart function raised (main() is past the chart calls without
\* both charts), the warning was printed and main() was not ended by the
\* failure; main() then ends normally, and by then the summary report, the
\* raw-results CSV and the comparison CSV (a row for every metric of every
\* test) exist.
C11_ChartFailureIsAWarning ==
    LET ChartRaised ==
            /\ "table" \in written
            /\ mpc \notin {"latency_chart", "throughput_chart"}
            /\ ~({"latency_chart", "throughput_chart"} \subseteq written)
    IN  /\ ChartRaised => (warned /\ mpc # "crashed" /\ main_error = "none")
        /\ (ChartRaised /\ MainEnded) =>
            /\ mpc = "done"
            /\ {"summary", "raw_csv", "comparison_csv"} \subseteq written
            /\ Len(csv_rows) = Len(CsvMetrics) * Len(Tests(loaded))

\* The latency chart was drawn, the throughput chart raised, main() finished.
C11_Witness ==
    /\ mpc = "done"
    /\ warned
    /\ "latency_chart" \in written
    /\ "throughput_chart" \notin written
    /\ loaded # <<>>

(***************************************************************************)
(* benchmark.py: the statistics of a BenchmarkResult.  A latency is a      *)
(* whole number of milliseconds; a statistic is kept exactly, as the       *)
(* fraction num / den, and the standard deviation as the fraction under    *)
(* its square root.                                                        *)
(***************************************************************************)
RECURSIVE SumSeq(_)
SumSeq(xs) == IF xs = <<>> THEN 0 ELSE Head(xs) + SumSeq(Tail(xs))

\* The values a property returns, and the exception it raises instead.
Q(n, d) == [kind |-> "number", num |-> n, den |-> d]
Sqrt(n, d) == [kind |-> "sqrt", num |-> n, den |-> d]
Raised(e) == [kind |-> e, num |-> 0, den |-> 1]

\* n / q for a fraction q: ZeroDivisionError when q is 0
Divide(n, q) == IF q.num = 0 THEN Raised("ZeroDivisionError") ELSE Q(n * q.den, q.num)

\* The interpolation of np.percentile over the sample as given, not sorted.
PercentileUnsorted(xs, q) ==
    LET n == Len(xs)
        lo == ((n - 1) * q) \div 100
        g == ((n - 1) * q) % 100
        hi == Min(lo + 1, n - 1)
    IN  Q(100 * xs[lo + 1] + g * (xs[hi + 1] - xs[lo + 1]), 100)

\* np.percentile(xs, q), linear interpolation: the value at the position
\* (n - 1) * q / 100 of the sorted sample.
Percentile(xs, q) ==
    LET a == SortSeq(xs, LAMBDA x, y : x < y)
        n == Len(a)
        lo == ((n - 1) * q) \div 100
        g == ((n - 1) * q) % 100
        hi == Min(lo + 1, n - 1)
    IN  Q(100 * a[lo + 1] + g * (a[hi + 1] - a[lo + 1]), 100)

\* statistics.stdev(xs): the sample standard deviation,
\* sqrt(sum((x - mean)^2) / (n - 1)); StatisticsError for fewer than two values
Stdev(xs) ==
    LET n == Len(xs)
    IN  IF n < 2 THEN Raised("StatisticsError")
        ELSE Sqrt(n * SumSeq([i \in 1..n |-> xs[i] * xs[i]]) - SumSeq(xs) * SumSeq(xs),
                  n * (n - 1))

\* min(xs), max(xs)
MinOf(xs) == CHOOSE x \in {xs[i] : i \in DOMAIN xs} : \A i \in DOMAIN xs : x <= xs[i]
MaxOf(xs) == CHOOSE x \in {xs[i] : i \in DOMAIN xs} : \A i \in DOMAIN xs : x >= xs[i]

\* BenchmarkResult.std without the length test.
StdUnguarded(r) == Stdev(r.latencies_ms)

\* BenchmarkResult.std
Std(r) == IF Len(r.latencies_ms) > 1 THEN Stdev(r.latencies_ms) ELSE Q(0, 1)

\* BenchmarkResult.throughput without the test of total_time.
ThroughputUnguarded(r) == Divide(r.iterations, Q(SumSeq(r.latencies_ms), MsPerSecond))

\* BenchmarkResult.throughput
Throughput(r) ==
    LET total_time == Q(SumSeq(r.latencies_ms), MsPerSecond)
    IN  IF total_time.num > 0 THEN Divide(r.iterations, total_time) ELSE Q(0, 1)

\* The properties in the order to_dict() reads them.
PropertyNames ==
    <<"p50", "p95", "p99", "mean", "std", "min_latency", "max_latency", "throughput">>

Property(name, r) ==
    CASE name = "p50"         -> Percentile(r.latencies_ms, 50)
      [] name = "p95"         -> Percentile(r.latencies_ms, 95)
      [] name = "p99"         -> Percentile(r.latencies_ms, 99)
      [] name = "mean"        -> Q(SumSeq(r.latencies_ms), Len(r.latencies_ms))
      [] name = "std"         -> Std(r)
      [] name = "min_latency" -> Q(MinOf(r.latencies_ms), 1)
      [] name = "max_latency" -> Q(MaxOf(r.latencies_ms), 1)
      [] name = "throughput"  -> Throughput(r)

\* run_benchmark returned a BenchmarkResult: one latency per iteration.
StatInit ==
    /\ \E n \in 1..MaxSamples : \E latencies \in [1..n -> 0..MaxSampleMs] :
        br = BenchmarkResult("point_query", "MongoDB", n, latencies)
    /\ spc = "reading"
    /\ stat = <<>>

\* to_dict() reads the next property; an exception of the property ends it.
ReadProperty ==
    /\ spc = "reading"
    /\ Cardinality(DOMAIN stat) < Len(PropertyNames)
    /\ LET name == PropertyNames[Cardinality(DOMAIN stat) + 1]
           v == Property(name, br)
       IN  /\ stat' = [k \in DOMAIN stat \cup {name} |-> IF k = name THEN v ELSE stat[k]]
           /\ spc' = IF v.kind \in {"number", "sqrt"} THEN "reading" ELSE "raised"
    /\ UNCHANGED <<benchVars, importVars, analyzeVars, br>>

\* to_dict() returns the dict.
ToDictReturns ==
    /\ spc = "reading"
    /\ Cardinality(DOMAIN stat) = Len(PropertyNames)
    /\ spc' = "returned"
    /\ UNCHANGED <<benchVars, importVars, analyzeVars, br, stat>>

StatNext ==
    \/ ReadProperty
    \/ ToDictReturns

InitStat == StatInit /\ BenchIdle /\ ImportIdle /\ AnalyzeIdle

SpecStat == InitStat /\ [][StatNext]_vars

\* C12: throughput, once read, is iterations / (sum(latencies_ms) / 1000) when
\* the latency sum is positive and 0 when the sum is 0; reading it raises
\* nothing.
C12_ThroughputGuardsZeroTime ==
    "throughput" \in DOMAIN stat =>
        LET t == stat["throughput"]
            total == SumSeq(br.latencies_ms)
        IN  /\ t.kind = "number"
            /\ total > 0 => t.num * total = MsPerSecond * br.iterations * t.den
            /\ total = 0 => t.num = 0

\* Throughput was read for a sample whose latencies are all 0.
C12_Witness ==
    /\ "throughput" \in DOMAIN stat
    /\ Len(br.latencies_ms) = 2
    /\ SumSeq(br.latencies_ms) = 0

\* C13: std, once read, is the number 0 for a sample of size 1 and for a
\* sample whose entries are all the same value; reading it raises nothing
\* then.
C13_StdOfOneOrEqualSamples ==
    ("std" \in DOMAIN stat
        /\ \A i \in DOMAIN br.latencies_ms : br.latencies_ms[i] = br.latencies_ms[1]) =>
            /\ stat["std"].kind \in {"number", "sqrt"}
            /\ stat["std"].num = 0

\* std was read for a sample of size 1.
C13_Witness ==
    /\ "std" \in DOMAIN stat
    /\ Len(br.latencies_ms) = 1
    /\ br.latencies_ms[1] > 0

\* C14: once to_dict() has read them all, p50 <= p95 <= p99 <= max_latency
\* and min_latency <= mean <= max_latency.
C14_OrderedStatistics ==
    spc = "returned" =>
        LET Leq(a, b) == a.num * b.den <= b.num * a.den
        IN  /\ \A k \in {"p50", "p95", "p99", "mean", "min_latency", "max_latency"} :
                stat[k].kind = "number" /\ stat[k].den > 0
            /\ Leq(stat["p50"], stat["p95"])
            /\ Leq(stat["p95"], stat["p99"])
            /\ Leq(stat["p99"], stat["max_latency"])
            /\ Leq(stat["min_latency"], stat["mean"])
            /\ Leq(stat["mean"], stat["max_latency"])

\* The statistics of a sample of three different latencies were read: its
\* percentiles lie strictly between each other.
C14_Witness ==
    /\ spc = "returned"
    /\ Len(br.latencies_ms) = 3
    /\ stat["p50"].num * stat["p95"].den < stat["p95"].num * stat["p50"].den
    /\ stat["p95"].num * stat["p99"].den < stat["p99"].num * stat["p95"].den
    /\ stat["p99"].num < stat["max_latency"].num * stat["p99"].den
    /\ stat["min_latency"].num * stat["mean"].den < stat["mean"].num

(***************************************************************************)
(* More claims about benchmark.py, checked under SpecBench                 *)
(***************************************************************************)

\* run_all_benchmarks has returned its list.
Returned == pc \in {"print_results", "save_results", "done"}

\* C15 as stated: results never holds two results of one (test, store) pair;
\* its results follow the order of the ten blocks (the tests in their fixed
\* order, MongoDB before HBase); while a run_benchmark call runs it is the
\* call of the block the function is at and every result belongs to an
\* earlier block, complete; and once the list is returned every store that
\* connected and holds rows has a result for each of its five blocks.
C15_OneResultPerTestAndStore ==
    LET At(k) == {s \in 1..10 : /\ Suite[s].name = results[k].test_name
                                /\ Suite[s].database = results[k].database}
    IN  /\ \A k \in 1..Len(results) : At(k) # {}
        /\ \A k, l \in 1..Len(results) :
            k < l => \A s \in At(k) : \A t \in At(l) : s < t
        /\ \A k \in 1..Len(results) :
            /\ \A s \in At(k) : s < slot
            /\ Len(results[k].latencies_ms) = results[k].iterations
        /\ rb.phase # "idle" =>
            /\ slot \in 1..10
            /\ rb.name = Suite[slot].name
            /\ rb.database = Suite[slot].database
            /\ ~HasResult(slot)
        /\ Returned =>
            \A db \in Databases :
                (Truthy(Bench(db)) /\ storeRows[db] > 0) =>
                    \A s \in BlocksOf(db) : HasResult(s)

\* C15 as amended: the same, but MongoDB's fifth result (aggregation) is
\* required only when its documents have a field besides _id; without one the
\* block is skipped and MongoDB contributes its four other results.
C15_OneResultPerRunnableTest ==
    LET At(k) == {s \in 1..10 : /\ Suite[s].name = results[k].test_name
                                /\ Suite[s].database = results[k].database}
    IN  /\ \A k \in 1..Len(results) : At(k) # {}
        /\ \A k, l \in 1..Len(results) :
            k < l => \A s \in At(k) : \A t \in At(l) : s < t
        /\ \A k \in 1..Len(results) :
            /\ \A s \in At(k) : s < slot
            /\ Len(results[k].latencies_ms) = results[k].iterations
        /\ rb.phase # "idle" =>
            /\ slot \in 1..10
            /\ rb.name = Suite[slot].name
            /\ rb.database = Suite[slot].database
            /\ ~HasResult(slot)
        /\ Returned =>
            \A db \in Databases :
                (Truthy(Bench(db)) /\ storeRows[db] > 0) =>
                    \A s \in BlocksOf(db) :
                        HasResult(s) = (Suite[s].name = "aggregation" => docFields > 0)

\* Both stores connected and hold rows with fields; all ten results are
\* returned.
C15_Witness ==
    /\ Returned
    /\ Len(results) = 10
    /\ storeRows["MongoDB"] > 0
    /\ storeRows["HBase"] > 0

\* C19: every invocation of the point-query call, warmup or timed, queries a
\* key of the store's sampled keys, and none fails for lack of a key; when
\* the store supplied at least NUM_ITERATIONS sampled keys, no two timed
\* invocations query the same key and no timed invocation queries a key a
\* warmup invocation has queried.
C19_TimedLookupsUseFreshKeys ==
    /\ crash \in {"none", "StoreError", "AttributeError"}
    /\ \A a \in 1..Len(queried) :
        \E k \in 1..Len(Bench(queried[a].database).sample_keys) :
            Bench(queried[a].database).sample_keys[k] = queried[a].key
    /\ \A a, b \in 1..Len(queried) :
        (/\ a < b
         /\ queried[b].timed
         /\ Len(Bench(queried[b].database).sample_keys) >= NUM_ITERATIONS) =>
            queried[a].key # queried[b].key

\* C18: when a store connected but holds no rows, the run ends (unless a
\* store fails an operation) by completing, without an exception: that store
\* has no point_query result and no aggregation / prefix_scan result, it has
\* its range_scan_100, range_scan_1000 and count_all results, and its
\* connection is closed.
C18_EmptyStoreCompletes ==
    \A db \in Databases :
        (Truthy(Bench(db)) /\ storeRows[db] = 0 /\ BenchEnded /\ crash # "StoreError") =>
            /\ pc = "done"
            /\ crash = "none"
            /\ conn[db] = "closed"
            /\ \A s \in BlocksOf(db) :
                HasResult(s) = (Suite[s].name \in {"range_scan_100", "range_scan_1000", "count_all"})

(***************************************************************************)
(* More claims about the importers, checked under SpecImport               *)
(***************************************************************************)

\* The rows of a sequence of batches, one after the other.
RECURSIVE Concat(_)
Concat(bs) == IF bs = <<>> THEN <<>> ELSE Head(bs) \o Concat(Tail(bs))

\* C16: while the batch loop of a file runs, the batches submitted so far are
\* non-empty, hold at most BATCH_SIZE rows each and are, one after the other,
\* exactly the rows of the file before the loop's position, in source order;
\* when the loop of a file has ended they are exactly the rows of the file
\* (none for a file without rows).
C16_BatchesCoverFileOnce ==
    /\ \A b \in 1..Len(batches) : Len(batches[b]) \in 1..BATCH_SIZE
    /\ ipc = "batch_loop" =>
        Concat(batches) = SubSeq(Df, 1, Min(batch_start, Len(Df)))
    /\ (ipc = "file_loop" /\ fileIdx > 1) =>
        Concat(batches) = dataDir[parquet_files[fileIdx - 1]].rows

\* The loop of a file has ended whose row count is not a multiple of
\* BATCH_SIZE: its last batch is a short one.
C16_Witness ==
    /\ ipc = "file_loop"
    /\ fileIdx > 1
    /\ batches # <<>>
    /\ Len(batches[Len(batches)]) < BATCH_SIZE
    /\ Concat(batches) = dataDir[parquet_files[fileIdx - 1]].rows

(***************************************************************************)
(* More claims about analyze_results.py, checked under SpecAnalyze         *)
(***************************************************************************)

\* C17: once both functions were applied, neither raised, and for every test
\* both stores have a result for and each of p50, p95, p99, mean and
\* throughput the table row and the CSV row name the same winner and give
\* the same signed percentage (the table shows one decimal, the CSV two; a
\* tie is 0 in both), values of 0 included.
C17_TableAndCsvAgree ==
    apc = "done" =>
        /\ table_error = "none"
        /\ \A k \in 1..Len(Tests(loaded)) :
            LET t == Tests(loaded)[k]
                both == \A db \in Databases : \E i \in DOMAIN loaded :
                            loaded[i].test_name = t /\ loaded[i].database = db
                Abs(x) == IF x < 0 THEN -x ELSE x
            IN  both =>
                    \A j \in 1..Len(TableMetrics) :
                        LET p == 6 * (k - 1) + j
                            c == CHOOSE i \in 1..Len(CsvMetrics) :
                                    CsvMetrics[i].key = TableMetrics[j].key
                            q == 8 * (k - 1) + c
                            d == IF p <= Len(table) THEN table[p].diff_pct ELSE NoDiff
                            signed == IF d.sign = "-" THEN -d.tenths ELSE d.tenths
                        IN  /\ p <= Len(table)
                            /\ q <= Len(csv_rows)
                            /\ table[p].winner = csv_rows[q].winner
                            /\ d.text \in {"pct", "0%"}
                            /\ csv_rows[q].difference_pct.kind \in {"float", "int"}
                            /\ Abs(10 * signed - csv_rows[q].difference_pct.hundredths) <= 5
====
